---- MODULE Spec2Model ----
(***************************************************************************)
(* The evaluator of rust_lisp (src/src/interpreter.rs) as a state machine. *)
(* The Rust call stack of eval_inner / eval_block_inner / call_function is *)
(* the variable `stack`: one record per suspended activation, holding the  *)
(* locals it still needs and the place it resumes at.  `ctl` is the call   *)
(* being entered or the Result being returned.  Environments are Rc-shared *)
(* frames: `envs` is the heap of frames, an Rc<RefCell<Env>> is an index.  *)
(***************************************************************************)
EXTENDS Integers, Sequences, FiniteSets, TLC

VARIABLES
  envs,     \* the environment frames; frame 1 is the root environment
  stack,    \* the suspended activations, innermost last
  ctl,      \* the call being entered, or the Result being returned
  trace,    \* the expressions eval_inner was entered with, in order
  bounces,  \* how often the trampoline loop (lines 248-254) re-invoked
  prog,     \* the expressions given to the entry point
  entry     \* the entry point called: "eval" or "eval_block"

vars == <<envs, stack, ctl, trace, bounces, prog, entry>>

(***************************************************************************)
(* Bounds of the checked inputs.                                           *)
(***************************************************************************)
MaxIter == 3
MaxClauses == 4
MaxBlock == 3
MaxDecls == 3
MaxParams == 2
MaxArgs == 3

(***************************************************************************)
(* Values (crate::model::Value).  Every field name has one type.           *)
(***************************************************************************)
Num(n) == [t |-> "num", n |-> n]
Bool(b) == [t |-> "bool", b |-> b]
Sym(s) == [t |-> "sym", s |-> s]
List(xs) == [t |-> "list", xs |-> xs]
NIL == List(<<>>)
Lambda(closure, argnames, body) ==
  [t |-> "lambda", closure |-> closure, argnames |-> argnames, body |-> body]
NativeFunc(f) == [t |-> "native", f |-> f]
TailCall(func, args) == [t |-> "tailcall", func |-> func, args |-> args]

(* Result<Value, RuntimeError>; msg is the kind of the error message.      *)
Ok(v) == [r |-> "ok", v |-> v]
Err(msg) == [r |-> "err", msg |-> msg]
IsOk(res) == res.r = "ok"
IsErr(res) == res.r = "err"

(* List::car is fallible on NIL, List::cdr of NIL is NIL.                  *)
Car(xs) == IF xs = <<>> THEN Err("ImproperListAccess") ELSE Ok(xs[1])
Cdr(xs) == IF xs = <<>> THEN <<>> ELSE Tail(xs)

is_truthy(v) ==
  ~ (v = NIL \/ (v.t = "bool" /\ v.b = FALSE))
from_truth(b) == Bool(b)

(***************************************************************************)
(* Environments (crate::model::Env): a frame is its parent (0: none) and   *)
(* its bindings, a sequence of [name, val] with distinct names.            *)
(***************************************************************************)
Binding(name, val) == [name |-> name, val |-> val]
FrameHas(entries, s) == \E i \in 1..Len(entries) : entries[i].name = s
FrameGet(entries, s) ==
  entries[CHOOSE i \in 1..Len(entries) : entries[i].name = s].val
FramePut(entries, s, v) ==
  IF FrameHas(entries, s)
  THEN [i \in 1..Len(entries) |->
          IF entries[i].name = s THEN Binding(s, v) ELSE entries[i]]
  ELSE Append(entries, Binding(s, v))

Env_extend(parent) == [parent |-> parent, entries |-> <<>>]

RECURSIVE Env_find(_, _, _)
Env_find(E, e, s) ==
  IF e = 0 THEN 0
  ELSE IF FrameHas(E[e].entries, s) THEN e
  ELSE Env_find(E, E[e].parent, s)

Env_get(E, e, s) ==
  LET f == Env_find(E, e, s)
  IN IF f = 0 THEN Err("UndefinedSymbol") ELSE Ok(FrameGet(E[f].entries, s))

Env_define(E, e, s, v) ==
  [E EXCEPT ![e].entries = FramePut(E[e].entries, s, v)]

Env_set(E, e, s, v) ==
  LET f == Env_find(E, e, s)
  IN IF f = 0 THEN [res |-> Err("UnboundAssignment"), envs |-> E]
     ELSE [res |-> Ok(NIL), envs |-> Env_define(E, f, s, v)]

(***************************************************************************)
(* The native functions the root environment is populated with.            *)
(***************************************************************************)
NativeApply(f, args) ==
  CASE f = "add" ->
         IF Len(args) = 2 /\ args[1].t = "num" /\ args[2].t = "num"
         THEN Ok(Num(args[1].n + args[2].n))
         ELSE Err("NativeArgs")
    [] f = "is_zero" ->
         IF Len(args) = 1 /\ args[1].t = "num"
         THEN Ok(Bool(args[1].n = 0))
         ELSE Err("NativeArgs")
    [] OTHER -> Ok(List(args))

RootEnv ==
  [parent |-> 0,
   entries |-> << Binding("add", NativeFunc("add")),
                  Binding("is_zero", NativeFunc("is_zero")),
                  Binding("list", NativeFunc("list")) >>]

(***************************************************************************)
(* Calls and returns between the three mutually recursive functions.       *)
(***************************************************************************)
EvalInner(env, expr, found_tail, in_func) ==
  [m |-> "eval", env |-> env, expr |-> expr, ft |-> found_tail, inf |-> in_func]
EvalBlockInner(env, clauses, found_tail, in_func) ==
  [m |-> "block", env |-> env, clauses |-> clauses,
   ft |-> found_tail, inf |-> in_func]
CallFunction(env, func, argv) ==
  [m |-> "call", env |-> env, func |-> func, argv |-> argv]
Ret(res) == [m |-> "ret", res |-> res]

Top == stack[Len(stack)]
Pop == SubSeq(stack, 1, Len(stack) - 1)
Push(stk, frame) == Append(stk, frame)
(* A frame whose callee is in Rust tail position: it hands the result on.  *)
Pass(of) == [k |-> "pass", of |-> of]
Go(c, stk) == [ctl |-> c, stack |-> stk]

Returning(kind) ==
  /\ ctl.m = "ret"
  /\ stack # <<>>
  /\ Top.k = kind

(* The ok values of a vector of results: filter_map(|a| a.ok()).           *)
OkValues(argv) ==
  LET oks == SelectSeq(argv, IsOk)
  IN [i \in 1..Len(oks) |-> oks[i].v]

(* collect::<Result<Vec<Value>, RuntimeError>>(): the first error wins.    *)
CollectResults(argv) ==
  IF \E i \in 1..Len(argv) : IsErr(argv[i])
  THEN argv[CHOOSE i \in 1..Len(argv) :
              IsErr(argv[i]) /\ \A j \in 1..(i - 1) : IsOk(argv[j])]
  ELSE Ok([i \in 1..Len(argv) |-> argv[i].v])

IsSExpr(x) == x.t = "list" /\ x.xs # <<>>
Keyword(x) == IF x.xs[1].t = "sym" THEN x.xs[1].s ELSE ""
SpecialForms ==
  {"define", "set", "defun", "lambda", "quote", "let", "begin", "cond",
   "if", "and", "or"}
Evaluating(keywords) ==
  /\ ctl.m = "eval"
  /\ IsSExpr(ctl.expr)
  /\ Keyword(ctl.expr) \in keywords

(* value_to_argnames: the names of a list of symbols, or an error.         *)
value_to_argnames(argnames) ==
  IF argnames.t = "list"
  THEN IF \A i \in 1..Len(argnames.xs) : argnames.xs[i].t = "sym"
       THEN [r |-> "ok",
             names |-> [i \in 1..Len(argnames.xs) |-> argnames.xs[i].s]]
       ELSE Err("TypeMismatch")
  ELSE Err("TypeMismatch")

(***************************************************************************)
(* The decisions of the evaluator that the properties below rest on.       *)
(***************************************************************************)
(* Variants of the decisions below, each a slip the code could have made.  *)
NeverDefer(found_tail, in_func) == FALSE
TrampolineStops(res) == FALSE
LetDeclOuter(env, let_env) == env
CondAlways(v) == TRUE
BlockGoesOn(res) == FALSE

(* line 240: a call is deferred when inside a function and not yet tail.   *)
ShouldDefer(found_tail, in_func) == ~found_tail /\ in_func

(* line 248: the trampoline goes on while the result is Ok(TailCall).      *)
IsTailCallResult(res) == IsOk(res) /\ res.v.t = "tailcall"

(* line 151: a let declaration is evaluated in the new frame.              *)
LetDeclEnv(env, let_env) == let_env

(* line 189: a cond clause is taken when its condition is truthy.          *)
CondTest(v) == is_truthy(v)

(* lines 28-33: an error of a clause that is not the last ends the block.  *)
BlockAborts(res) == IsErr(res)

(* line 332: the call frame is Env::extend(closure), a frame without       *)
(* bindings; the `entries` map built at lines 312-330 is not given to it.  *)
CallFrameEntries(entries) == <<>>

(* lines 312-330: the loop over the parameter names.  args[index] beyond   *)
(* the end of the vector panics; an error in a named position returns.     *)
RECURSIVE BindArgs(_, _, _, _)
BindArgs(argnames, argv, index, entries) ==
  IF index > Len(argnames)
  THEN [st |-> "bound", entries |-> entries]
  ELSE IF argnames[index] = "..."
  THEN [st |-> "bound",
        entries |-> FramePut(entries, "...",
                      List(OkValues(SubSeq(argv, index, Len(argv)))))]
  ELSE IF index > Len(argv)
  THEN [st |-> "panic", entries |-> entries]
  ELSE IF IsErr(argv[index])
  THEN [st |-> "err", entries |-> entries, res |-> argv[index]]
  ELSE BindArgs(argnames, argv, index + 1,
                FramePut(entries, argnames[index], argv[index].v))

(***************************************************************************)
(* Init: a root environment holding the natives, nothing evaluated yet.    *)
(***************************************************************************)
Init ==
  /\ envs = <<RootEnv>>
  /\ stack = <<>>
  /\ ctl = [m |-> "idle"]
  /\ trace = <<>>
  /\ bounces = 0
  /\ prog = <<>>
  /\ entry = "none"

(***************************************************************************)
(* eval_inner, lines 61-65 and 262-263: symbols and plain values.          *)
(***************************************************************************)
EvalSymbol ==
  /\ ctl.m = "eval"
  /\ ctl.expr.t = "sym"
  /\ ctl' = Ret(Env_get(envs, ctl.env, ctl.expr.s))
  /\ trace' = Append(trace, ctl.expr)
  /\ UNCHANGED <<envs, stack, bounces, prog, entry>>

EvalPlain ==
  /\ ctl.m = "eval"
  /\ ctl.expr.t # "sym"
  /\ ~ IsSExpr(ctl.expr)
  /\ ctl' = Ret(Ok(ctl.expr))
  /\ trace' = Append(trace, ctl.expr)
  /\ UNCHANGED <<envs, stack, bounces, prog, entry>>

(***************************************************************************)
(* define / set, lines 71-91.                                              *)
(***************************************************************************)
EvalDefineSet ==
  /\ Evaluating({"define", "set"})
  /\ LET cdr == Cdr(ctl.expr.xs)
         symbol == Car(cdr)
         value_expr == Car(Cdr(cdr))
         n == IF IsErr(symbol) THEN Go(Ret(symbol), stack)
              ELSE IF symbol.v.t # "sym" THEN Go(Ret(Err("TypeMismatch")), stack)
              ELSE IF IsErr(value_expr) THEN Go(Ret(value_expr), stack)
              ELSE Go(EvalInner(ctl.env, value_expr.v, TRUE, ctl.inf),
                      Push(stack, [k |-> "define", keyword |-> Keyword(ctl.expr),
                                   env |-> ctl.env, symbol |-> symbol.v.s]))
     IN /\ ctl' = n.ctl
        /\ stack' = n.stack
  /\ trace' = Append(trace, ctl.expr)
  /\ UNCHANGED <<envs, bounces, prog, entry>>

RetDefineSet ==
  /\ Returning("define")
  /\ stack' = Pop
  /\ IF IsErr(ctl.res)
     THEN /\ ctl' = ctl
          /\ envs' = envs
     ELSE IF Top.keyword = "define"
     THEN /\ envs' = Env_define(envs, Top.env, Top.symbol, ctl.res.v)
          /\ ctl' = ctl
     ELSE LET a == Env_set(envs, Top.env, Top.symbol, ctl.res.v)
          IN /\ envs' = a.envs
             /\ ctl' = IF IsErr(a.res) THEN Ret(a.res) ELSE ctl
  /\ UNCHANGED <<trace, bounces, prog, entry>>

(***************************************************************************)
(* defun, lambda, quote: lines 93-129.                                     *)
(***************************************************************************)
EvalDefun ==
  /\ Evaluating({"defun"})
  /\ LET cdr == Cdr(ctl.expr.xs)
         symbol == Car(cdr)
         params == Car(Cdr(cdr))
         argnames == IF IsErr(params) THEN params
                     ELSE value_to_argnames(params.v)
         body == Cdr(Cdr(cdr))
     IN IF IsErr(symbol) THEN ctl' = Ret(symbol) /\ envs' = envs
        ELSE IF symbol.v.t # "sym"
        THEN ctl' = Ret(Err("TypeMismatch")) /\ envs' = envs
        ELSE IF IsErr(argnames) THEN ctl' = Ret(argnames) /\ envs' = envs
        ELSE /\ envs' = Env_define(envs, ctl.env, symbol.v.s,
                                   Lambda(ctl.env, argnames.names, body))
             /\ ctl' = Ret(Ok(NIL))
  /\ trace' = Append(trace, ctl.expr)
  /\ UNCHANGED <<stack, bounces, prog, entry>>

EvalLambda ==
  /\ Evaluating({"lambda"})
  /\ LET cdr == Cdr(ctl.expr.xs)
         params == Car(cdr)
         argnames == IF IsErr(params) THEN params
                     ELSE value_to_argnames(params.v)
     IN ctl' = IF IsErr(argnames) THEN Ret(argnames)
               ELSE Ret(Ok(Lambda(ctl.env, argnames.names, Cdr(cdr))))
  /\ trace' = Append(trace, ctl.expr)
  /\ UNCHANGED <<envs, stack, bounces, prog, entry>>

EvalQuote ==
  /\ Evaluating({"quote"})
  /\ ctl' = Ret(Car(Cdr(ctl.expr.xs)))
  /\ trace' = Append(trace, ctl.expr)
  /\ UNCHANGED <<envs, stack, bounces, prog, entry>>

(***************************************************************************)
(* let, lines 131-170.  LetLoop is the for loop at declaration i: it       *)
(* checks the declaration and evaluates its expression, or, past the last  *)
(* declaration, enters the body block.                                     *)
(***************************************************************************)
LetLoop(scope, let_env, decls, i, body, found_tail, in_func, stk) ==
  IF i > Len(decls)
  THEN Go(EvalBlockInner(let_env, body, found_tail, in_func),
          Push(stk, Pass("let")))
  ELSE LET decl == decls[i]
           symbol == Car(decl.xs)
           expr == Car(Cdr(decl.xs))
       IN IF decl.t # "list" THEN Go(Ret(Err("TypeMismatch")), stk)
          ELSE IF IsErr(symbol) THEN Go(Ret(symbol), stk)
          ELSE IF symbol.v.t # "sym" THEN Go(Ret(Err("TypeMismatch")), stk)
          ELSE IF IsErr(expr) THEN Go(Ret(expr), stk)
          ELSE Go(EvalInner(LetDeclEnv(scope, let_env), expr.v, TRUE, in_func),
                  Push(stk, [k |-> "let", scope |-> scope, env |-> let_env,
                             decls |-> decls, i |-> i, symbol |-> symbol.v.s,
                             body |-> body, ft |-> found_tail,
                             inf |-> in_func]))

EvalLet ==
  /\ Evaluating({"let"})
  /\ envs' = Append(envs, Env_extend(ctl.env))
  /\ LET let_env == Len(envs) + 1
         declarations == Car(Cdr(ctl.expr.xs))
         n == IF IsErr(declarations) THEN Go(Ret(declarations), stack)
              ELSE IF declarations.v.t # "list"
              THEN Go(Ret(Err("TypeMismatch")), stack)
              ELSE LetLoop(ctl.env, let_env, declarations.v.xs, 1,
                           Cdr(Cdr(ctl.expr.xs)), ctl.ft, ctl.inf, stack)
     IN /\ ctl' = n.ctl
        /\ stack' = n.stack
  /\ trace' = Append(trace, ctl.expr)
  /\ UNCHANGED <<bounces, prog, entry>>

RetLetDecl ==
  /\ Returning("let")
  /\ IF IsErr(ctl.res)
     THEN /\ ctl' = ctl
          /\ stack' = Pop
          /\ envs' = envs
     ELSE LET n == LetLoop(Top.scope, Top.env, Top.decls, Top.i + 1, Top.body,
                           Top.ft, Top.inf, Pop)
          IN /\ envs' = Env_define(envs, Top.env, Top.symbol, ctl.res.v)
             /\ ctl' = n.ctl
             /\ stack' = n.stack
  /\ UNCHANGED <<trace, bounces, prog, entry>>

(***************************************************************************)
(* begin, lines 172-176.                                                   *)
(***************************************************************************)
EvalBegin ==
  /\ Evaluating({"begin"})
  /\ ctl' = EvalBlockInner(ctl.env, Cdr(ctl.expr.xs), ctl.ft, ctl.inf)
  /\ stack' = Push(stack, Pass("begin"))
  /\ trace' = Append(trace, ctl.expr)
  /\ UNCHANGED <<envs, bounces, prog, entry>>

(***************************************************************************)
(* cond, lines 178-195.  CondLoop is the for loop at clause i.             *)
(***************************************************************************)
CondLoop(env, clauses, i, found_tail, in_func, stk) ==
  IF i > Len(clauses)
  THEN Go(Ret(Ok(NIL)), stk)
  ELSE LET clause == clauses[i]
           condition == Car(clause.xs)
           then == Car(Cdr(clause.xs))
       IN IF clause.t # "list" THEN Go(Ret(Err("TypeMismatch")), stk)
          ELSE IF IsErr(condition) THEN Go(Ret(condition), stk)
          ELSE IF IsErr(then) THEN Go(Ret(then), stk)
          ELSE Go(EvalInner(env, condition.v, TRUE, in_func),
                  Push(stk, [k |-> "cond", env |-> env, clauses |-> clauses,
                             i |-> i, then |-> then.v, ft |-> found_tail,
                             inf |-> in_func]))

EvalCond ==
  /\ Evaluating({"cond"})
  /\ LET n == CondLoop(ctl.env, Cdr(ctl.expr.xs), 1, ctl.ft, ctl.inf, stack)
     IN /\ ctl' = n.ctl
        /\ stack' = n.stack
  /\ trace' = Append(trace, ctl.expr)
  /\ UNCHANGED <<envs, bounces, prog, entry>>

RetCond ==
  /\ Returning("cond")
  /\ LET n == IF IsErr(ctl.res) THEN Go(ctl, Pop)
              ELSE IF CondTest(ctl.res.v)
              THEN Go(EvalInner(Top.env, Top.then, Top.ft, Top.inf),
                      Push(Pop, Pass("cond")))
              ELSE CondLoop(Top.env, Top.clauses, Top.i + 1, Top.ft, Top.inf,
                            Pop)
     IN /\ ctl' = n.ctl
        /\ stack' = n.stack
  /\ UNCHANGED <<envs, trace, bounces, prog, entry>>

(***************************************************************************)
(* if, lines 197-210.                                                      *)
(***************************************************************************)
EvalIf ==
  /\ Evaluating({"if"})
  /\ LET cdr == Cdr(ctl.expr.xs)
         condition == Car(cdr)
         then_expr == Car(Cdr(cdr))
         else_expr == Car(Cdr(Cdr(cdr)))
         n == IF IsErr(condition) THEN Go(Ret(condition), stack)
              ELSE IF IsErr(then_expr) THEN Go(Ret(then_expr), stack)
              ELSE Go(EvalInner(ctl.env, condition.v, TRUE, ctl.inf),
                      Push(stack, [k |-> "if", env |-> ctl.env,
                                   then |-> then_expr.v, else_ |-> else_expr,
                                   ft |-> ctl.ft, inf |-> ctl.inf]))
     IN /\ ctl' = n.ctl
        /\ stack' = n.stack
  /\ trace' = Append(trace, ctl.expr)
  /\ UNCHANGED <<envs, bounces, prog, entry>>

RetIf ==
  /\ Returning("if")
  /\ LET n == IF IsErr(ctl.res) THEN Go(ctl, Pop)
              ELSE IF is_truthy(ctl.res.v)
              THEN Go(EvalInner(Top.env, Top.then, Top.ft, Top.inf),
                      Push(Pop, Pass("if")))
              ELSE IF IsOk(Top.else_)
              THEN Go(EvalInner(Top.env, Top.else_.v, Top.ft, Top.inf),
                      Push(Pop, Pass("if")))
              ELSE Go(Ret(Ok(NIL)), Pop)
     IN /\ ctl' = n.ctl
        /\ stack' = n.stack
  /\ UNCHANGED <<envs, trace, bounces, prog, entry>>

(***************************************************************************)
(* and / or, lines 212-230.                                                *)
(***************************************************************************)
EvalAndOr ==
  /\ Evaluating({"and", "or"})
  /\ LET cdr == Cdr(ctl.expr.xs)
         a == Car(cdr)
         b == Car(Cdr(cdr))
         n == IF IsErr(a) THEN Go(Ret(a), stack)
              ELSE IF IsErr(b) THEN Go(Ret(b), stack)
              ELSE Go(EvalInner(ctl.env, a.v, TRUE, ctl.inf),
                      Push(stack, [k |-> "andor", keyword |-> Keyword(ctl.expr),
                                   env |-> ctl.env, rhs |-> b.v,
                                   second |-> FALSE, inf |-> ctl.inf]))
     IN /\ ctl' = n.ctl
        /\ stack' = n.stack
  /\ trace' = Append(trace, ctl.expr)
  /\ UNCHANGED <<envs, bounces, prog, entry>>

RetAndOr ==
  /\ Returning("andor")
  /\ LET short == IF Top.keyword = "and" THEN ~ is_truthy(ctl.res.v)
                  ELSE is_truthy(ctl.res.v)
         n == IF IsErr(ctl.res) THEN Go(ctl, Pop)
              ELSE IF Top.second \/ short
              THEN Go(Ret(Ok(from_truth(is_truthy(ctl.res.v)))), Pop)
              ELSE Go(EvalInner(Top.env, Top.rhs, TRUE, Top.inf),
                      Push(Pop, [Top EXCEPT !.second = TRUE]))
     IN /\ ctl' = n.ctl
        /\ stack' = n.stack
  /\ UNCHANGED <<envs, trace, bounces, prog, entry>>

(***************************************************************************)
(* Function call, lines 233-258.  ArgsLoop drives the `args` iterator:     *)
(* both consumers (collect at line 246, filter_map at line 243) run it to  *)
(* its end, one operand after the other, keeping each Result.              *)
(***************************************************************************)
ArgsLoop(env, func, operands, results, found_tail, in_func, stk) ==
  IF Len(results) < Len(operands)
  THEN Go(EvalInner(env, operands[Len(results) + 1], TRUE, in_func),
          Push(stk, [k |-> "args", env |-> env, func |-> func,
                     operands |-> operands, results |-> results,
                     ft |-> found_tail, inf |-> in_func]))
  ELSE IF ShouldDefer(found_tail, in_func)
  THEN Go(Ret(Ok(TailCall(func, OkValues(results)))), stk)
  ELSE Go(CallFunction(env, func, results),
          Push(stk, [k |-> "trampoline", env |-> env]))

EvalCall ==
  /\ ctl.m = "eval"
  /\ IsSExpr(ctl.expr)
  /\ Keyword(ctl.expr) \notin SpecialForms
  /\ ctl' = EvalInner(ctl.env, ctl.expr.xs[1], TRUE, ctl.inf)
  /\ stack' = Push(stack, [k |-> "func", env |-> ctl.env,
                           operands |-> Tail(ctl.expr.xs),
                           ft |-> ctl.ft, inf |-> ctl.inf])
  /\ trace' = Append(trace, ctl.expr)
  /\ UNCHANGED <<envs, bounces, prog, entry>>

RetFunc ==
  /\ Returning("func")
  /\ LET n == IF IsErr(ctl.res) THEN Go(ctl, Pop)
              ELSE ArgsLoop(Top.env, ctl.res.v, Top.operands, <<>>, Top.ft,
                            Top.inf, Pop)
     IN /\ ctl' = n.ctl
        /\ stack' = n.stack
  /\ UNCHANGED <<envs, trace, bounces, prog, entry>>

RetArg ==
  /\ Returning("args")
  /\ LET n == ArgsLoop(Top.env, Top.func, Top.operands,
                       Append(Top.results, ctl.res), Top.ft, Top.inf, Pop)
     IN /\ ctl' = n.ctl
        /\ stack' = n.stack
  /\ UNCHANGED <<envs, trace, bounces, prog, entry>>

(* The while loop of lines 248-254.                                        *)
RetTrampoline ==
  /\ Returning("trampoline")
  /\ IF IsTailCallResult(ctl.res)
     THEN /\ ctl' = CallFunction(Top.env, ctl.res.v.func,
                       [i \in 1..Len(ctl.res.v.args) |-> Ok(ctl.res.v.args[i])])
          /\ stack' = stack
          /\ bounces' = bounces + 1
     ELSE /\ ctl' = ctl
          /\ stack' = Pop
          /\ bounces' = bounces
  /\ UNCHANGED <<envs, trace, prog, entry>>

(***************************************************************************)
(* call_function, lines 294-347.                                           *)
(***************************************************************************)
CallNative ==
  /\ ctl.m = "call"
  /\ ctl.func.t = "native"
  /\ LET args_vec == CollectResults(ctl.argv)
     IN ctl' = IF IsErr(args_vec) THEN Ret(args_vec)
               ELSE Ret(NativeApply(ctl.func.f, args_vec.v))
  /\ UNCHANGED <<envs, stack, trace, bounces, prog, entry>>

CallLambda ==
  /\ ctl.m = "call"
  /\ ctl.func.t = "lambda"
  /\ LET bound == BindArgs(ctl.func.argnames, ctl.argv, 1, <<>>)
         arg_env == Len(envs) + 1
     IN CASE bound.st = "panic" ->
               /\ ctl' = [m |-> "panic"]
               /\ UNCHANGED <<envs, stack>>
          [] bound.st = "err" ->
               /\ ctl' = Ret(bound.res)
               /\ UNCHANGED <<envs, stack>>
          [] OTHER ->
               /\ envs' = Append(envs,
                            [Env_extend(ctl.func.closure) EXCEPT
                               !.entries = CallFrameEntries(bound.entries)])
               /\ stack' = Push(stack, [k |-> "call_function",
                                        func |-> ctl.func, argv |-> ctl.argv,
                                        env |-> arg_env])
               /\ ctl' = EvalBlockInner(arg_env, ctl.func.body, FALSE, TRUE)
  /\ UNCHANGED <<trace, bounces, prog, entry>>

CallNotCallable ==
  /\ ctl.m = "call"
  /\ ctl.func.t \notin {"native", "lambda"}
  /\ ctl' = Ret(Err("NotCallable"))
  /\ UNCHANGED <<envs, stack, trace, bounces, prog, entry>>

(* The result of the body block is the result of call_function; likewise   *)
(* for the special forms that end in a call (lines 157, 175, 190, 204-207).*)
RetCallFunction ==
  /\ Returning("call_function")
  /\ ctl' = ctl
  /\ stack' = Pop
  /\ UNCHANGED <<envs, trace, bounces, prog, entry>>

RetPass ==
  /\ Returning("pass")
  /\ ctl' = ctl
  /\ stack' = Pop
  /\ UNCHANGED <<envs, trace, bounces, prog, entry>>

(***************************************************************************)
(* eval_block_inner, lines 18-46.  The frame holds the index of the clause *)
(* under evaluation; the last one gets the block's own found_tail.         *)
(***************************************************************************)
ClauseTail(clauses, i, found_tail) ==
  IF i < Len(clauses) THEN TRUE ELSE found_tail

EnterBlock ==
  /\ ctl.m = "block"
  /\ IF ctl.clauses = <<>>
     THEN /\ ctl' = Ret(Err("EmptyBody"))
          /\ stack' = stack
     ELSE /\ ctl' = EvalInner(ctl.env, ctl.clauses[1],
                              ClauseTail(ctl.clauses, 1, ctl.ft), ctl.inf)
          /\ stack' = Push(stack, [k |-> "eval_block_inner", env |-> ctl.env,
                                   clauses |-> ctl.clauses, i |-> 1,
                                   ft |-> ctl.ft, inf |-> ctl.inf])
  /\ UNCHANGED <<envs, trace, bounces, prog, entry>>

RetBlock ==
  /\ Returning("eval_block_inner")
  /\ IF Top.i = Len(Top.clauses) \/ BlockAborts(ctl.res)
     THEN /\ ctl' = ctl
          /\ stack' = Pop
     ELSE /\ ctl' = EvalInner(Top.env, Top.clauses[Top.i + 1],
                              ClauseTail(Top.clauses, Top.i + 1, Top.ft),
                              Top.inf)
          /\ stack' = Push(Pop, [Top EXCEPT !.i = Top.i + 1])
  /\ UNCHANGED <<envs, trace, bounces, prog, entry>>

(***************************************************************************)
(* The expressions given to the entry points: families of programs over    *)
(* the surface syntax, indexed within the bounds.                          *)
(***************************************************************************)
Nm(prefix, i) == prefix \o ToString(i)
Form(keyword, xs) == List(<<Sym(keyword)>> \o xs)
Apply(f, xs) == List(<<f>> \o xs)
Quote(x) == Form("quote", <<x>>)
Define(name, x) == Form("define", <<Sym(name), x>>)
SymList(names) == List([i \in 1..Len(names) |-> Sym(names[i])])
BoolSeqs(max) == UNION {[1..n -> BOOLEAN] : n \in 0..max}

(* (define x1 100) (define r (let ((x1 1) (x2 (add x1 1)) ...) xn)) x1     *)
LetDecl(i) ==
  List(<<Sym(Nm("x", i)),
         IF i = 1 THEN Num(1)
         ELSE Apply(Sym("add"), <<Sym(Nm("x", i - 1)), Num(1)>>)>>)
LetForm(n) ==
  Form("let", <<List([i \in 1..n |-> LetDecl(i)]),
                IF n = 0 THEN Num(0) ELSE Sym(Nm("x", n))>>)
LetProg(n) == <<Define("x1", Num(100)), Define("r", LetForm(n)), Sym("x1")>>

(* (cond ((and 1 T1) (define t1 1)) ((and 2 T2) (define t2 2)) ...)        *)
CondCondition(tv, i) == Form("and", <<Num(i), Bool(tv[i])>>)
CondThen(i) == Define(Nm("t", i), Num(i))
CondProg(tv) ==
  <<Form("cond", [i \in 1..Len(tv) |-> List(<<CondCondition(tv, i), CondThen(i)>>)])>>

(* A block whose i-th expression is (define bi i), or the unbound symbol   *)
(* ui where fs[i] is FALSE; at top level, under begin, as the body of a    *)
(* let, or as the body of a closure.                                       *)
BlockItem(fs, i) ==
  IF fs[i] THEN Define(Nm("b", i), Num(i)) ELSE Sym(Nm("u", i))
BlockItems(fs) == [i \in 1..Len(fs) |-> BlockItem(fs, i)]
BlockWraps == {"top", "begin", "let", "body"}
BlockProg(fs, wrap) ==
  CASE wrap = "top" -> BlockItems(fs)
    [] wrap = "begin" -> <<Form("begin", BlockItems(fs))>>
    [] wrap = "let" -> <<Form("let", <<NIL>> \o BlockItems(fs))>>
    [] OTHER -> <<Apply(Form("lambda", <<NIL>> \o BlockItems(fs)), <<>>)>>

(* A loop that counts the global n down to zero; its self-call is the last *)
(* action of the body, under if, cond, let, or directly in the body.       *)
LoopStep == Form("set", <<Sym("n"), Apply(Sym("add"), <<Sym("n"), Num(-1)>>)>>)
LoopCall == Apply(Sym("loop"), <<Sym("n")>>)
LoopTest == Apply(Sym("is_zero"), <<Sym("n")>>)
LoopBody(variant) ==
  CASE variant = "if" ->
         <<Form("if", <<LoopTest, Quote(Sym("done")),
                        Form("begin", <<LoopStep, LoopCall>>)>>)>>
    [] variant = "cond" ->
         <<Form("cond", <<List(<<LoopTest, Quote(Sym("done"))>>),
                          List(<<Bool(TRUE),
                                 Form("begin", <<LoopStep, LoopCall>>)>>)>>)>>
    [] variant = "let" ->
         <<Form("if", <<LoopTest, Quote(Sym("done")),
                        Form("let", <<List(<<List(<<Sym("m"),
                                        Apply(Sym("add"), <<Sym("n"), Num(-1)>>)>>)>>),
                                      Form("set", <<Sym("n"), Sym("m")>>),
                                      LoopCall>>)>>)>>
    [] OTHER ->
         <<Form("if", <<LoopTest, Sym("stop"), Num(0)>>), LoopStep, LoopCall>>
LoopVariants == {"if", "cond", "let", "direct"}
LoopProg(iters, variant) ==
  <<Define("n", Num(iters)),
    Form("defun", <<Sym("loop"), SymList(<<"k">>)>> \o LoopBody(variant)),
    LoopCall>>

(* A call of a closure with k named parameters (and a rest marker) or of   *)
(* the native list, with n operands of which the e-th (if any) fails; made *)
(* at top level, or in tail position of an enclosing closure body.         *)
ParamNames(k, rest) ==
  [i \in 1..k |-> Nm("p", i)] \o (IF rest THEN <<"...">> ELSE <<>>)
Callee(fn, k, rest) ==
  IF fn = "native" THEN Sym("list")
  ELSE Form("lambda", <<SymList(ParamNames(k, rest)),
                        Apply(Sym("list"), SymList(ParamNames(k, rest)).xs)>>)
Operand(j, e) ==
  IF j = e THEN Sym("u") ELSE Define(Nm("o", j), Num(10 + j))
CallForm(fn, k, rest, n, e) ==
  Apply(Callee(fn, k, rest), [j \in 1..n |-> Operand(j, e)])
CallProg(fn, k, rest, n, e, deferred) ==
  IF deferred
  THEN <<Apply(Form("lambda", <<NIL, CallForm(fn, k, rest, n, e)>>), <<>>)>>
  ELSE <<CallForm(fn, k, rest, n, e)>>
CallProgs ==
  {CallProg("closure", k, rest, n, e, d) :
     k \in 0..MaxParams, rest \in BOOLEAN, n \in 0..MaxArgs,
     e \in 0..MaxArgs, d \in BOOLEAN}
  \cup {CallProg("native", 0, FALSE, n, e, d) :
          n \in 0..MaxArgs, e \in 0..MaxArgs, d \in BOOLEAN}

(* Single cases: a parameter shadowing an outer name, the counting loop    *)
(* over its parameter, a call of a number, set of an unbound symbol, quote *)
(* of unbound symbols, or, if without else.                                *)
ShadowProg ==
  <<Define("p1", Num(99)),
    Apply(Form("lambda", <<SymList(<<"p1">>), Sym("p1")>>), <<Num(11)>>)>>
CountProg ==
  <<Form("defun", <<Sym("count"), SymList(<<"c">>),
       Form("if", <<Apply(Sym("is_zero"), <<Sym("c")>>), Quote(Sym("done")),
                    Apply(Sym("count"),
                          <<Apply(Sym("add"), <<Sym("c"), Num(-1)>>)>>)>>)>>),
    Apply(Sym("count"), <<Num(2)>>)>>
MiscProgs ==
  { ShadowProg, CountProg,
    <<List(<<Num(1), Num(2), Num(3)>>)>>,
    <<Form("set", <<Sym("zz"), Num(1)>>)>>,
    <<Quote(SymList(<<"a", "b", "c">>))>>,
    <<Form("or", <<Bool(FALSE), Num(1)>>)>>,
    <<Form("if", <<Bool(FALSE), Num(1)>>)>>,
    <<NIL>> }

Programs ==
  {LetProg(n) : n \in 0..MaxDecls}
  \cup {CondProg(tv) : tv \in BoolSeqs(MaxClauses)}
  \cup {BlockProg(fs, w) : fs \in BoolSeqs(MaxBlock), w \in BlockWraps}
  \cup {LoopProg(i, v) : i \in 0..MaxIter, v \in LoopVariants}
  \cup CallProgs
  \cup MiscProgs

(***************************************************************************)
(* The entry points, lines 5-16, and the return to their caller.           *)
(***************************************************************************)
eval ==
  /\ ctl.m = "idle"
  /\ \E p \in Programs :
       /\ Len(p) = 1
       /\ prog' = p
       /\ ctl' = EvalInner(1, p[1], FALSE, FALSE)
  /\ entry' = "eval"
  /\ UNCHANGED <<envs, stack, trace, bounces>>

eval_block ==
  /\ ctl.m = "idle"
  /\ \E p \in Programs :
       /\ prog' = p
       /\ ctl' = EvalBlockInner(1, p, FALSE, FALSE)
  /\ entry' = "eval_block"
  /\ UNCHANGED <<envs, stack, trace, bounces>>

Return ==
  /\ ctl.m = "ret"
  /\ stack = <<>>
  /\ ctl' = [m |-> "done", res |-> ctl.res]
  /\ UNCHANGED <<envs, stack, trace, bounces, prog, entry>>

Next ==
  \/ eval
  \/ eval_block
  \/ Return
  \/ EvalSymbol
  \/ EvalPlain
  \/ EvalDefineSet
  \/ RetDefineSet
  \/ EvalDefun
  \/ EvalLambda
  \/ EvalQuote
  \/ EvalLet
  \/ RetLetDecl
  \/ EvalBegin
  \/ EvalCond
  \/ RetCond
  \/ EvalIf
  \/ RetIf
  \/ EvalAndOr
  \/ RetAndOr
  \/ EvalCall
  \/ RetFunc
  \/ RetArg
  \/ RetTrampoline
  \/ CallNative
  \/ CallLambda
  \/ CallNotCallable
  \/ RetCallFunction
  \/ RetPass
  \/ EnterBlock
  \/ RetBlock

Spec == Init /\ [][Next]_vars

Done == ctl.m = "done"
Panicked == ctl.m = "panic"

(***************************************************************************)
(* Vocabulary of the properties.                                           *)
(***************************************************************************)
IsPrefix(s, t) == Len(s) <= Len(t) /\ s = SubSeq(t, 1, Len(s))
Seen(exprs) == SelectSeq(trace, LAMBDA x : x \in exprs)
FirstIndex(bs, b) ==
  IF \E i \in 1..Len(bs) : bs[i] = b
  THEN CHOOSE i \in 1..Len(bs) : bs[i] = b /\ \A j \in 1..(i - 1) : bs[j] # b
  ELSE 0
RestIndex(argnames) == FirstIndex(argnames, "...")
NamedCount(argnames) ==
  IF RestIndex(argnames) = 0 THEN Len(argnames) ELSE RestIndex(argnames) - 1
AllOk(argv) == \A i \in 1..Len(argv) : IsOk(argv[i])
CallDepth == Cardinality({d \in 1..Len(stack) : stack[d].k = "call_function"})
(* A closure invocation whose body is about to be evaluated.               *)
BodyStarts ==
  /\ ctl.m = "block"
  /\ stack # <<>>
  /\ Top.k = "call_function"
RECURSIVE ContainsTailCall(_)
ContainsTailCall(v) ==
  \/ v.t = "tailcall"
  \/ v.t = "list" /\ \E i \in 1..Len(v.xs) : ContainsTailCall(v.xs[i])

(***************************************************************************)
(* C1: when a closure is invoked with at least as many arguments as named  *)
(* parameters, its body runs in a new frame whose parent is the captured   *)
(* environment and where looking up the i-th named parameter gives the     *)
(* i-th argument.                                                          *)
(***************************************************************************)
C1_ParametersBound ==
  BodyStarts =>
    /\ envs[Top.env].parent = Top.func.closure
    /\ \A i \in 1..NamedCount(Top.func.argnames) :
         Env_get(envs, Top.env, Top.func.argnames[i]) = Ok(Top.argv[i].v)

(***************************************************************************)
(* C4: invoking a closure with fewer arguments than named parameters       *)
(* returns an error (ArityMismatch when every operand had a value) and     *)
(* never panics on an out-of-bounds access of the argument vector.         *)
(***************************************************************************)
C4_ArityMismatch ==
  [][(/\ ctl.m = "call"
      /\ ctl.func.t = "lambda"
      /\ Len(ctl.argv) < NamedCount(ctl.func.argnames))
     => (/\ ctl'.m = "ret"
         /\ IsErr(ctl'.res)
         /\ AllOk(ctl.argv) => ctl'.res = Err("ArityMismatch"))]_vars

(***************************************************************************)
(* C5: in a call that is invoked immediately, a failing operand ends the   *)
(* call form: no operand to its right is evaluated (an operand is only     *)
(* under evaluation while all results so far are values) and no closure    *)
(* body is entered with a failed operand among its arguments.              *)
(***************************************************************************)
C5_FailFast ==
  \A d \in 1..Len(stack) :
    /\ (stack[d].k = "args" /\ ~ (~ stack[d].ft /\ stack[d].inf))
         => AllOk(stack[d].results)
    /\ stack[d].k = "call_function" => AllOk(stack[d].argv)

(***************************************************************************)
(* C6: with the rest marker after k named parameters and n >= k arguments, *)
(* the call frame binds "..." to the list of arguments k+1..n (empty when  *)
(* n = k).                                                                 *)
(***************************************************************************)
C6_RestBound ==
  (/\ BodyStarts
   /\ RestIndex(Top.func.argnames) # 0
   /\ AllOk(Top.argv))
  => LET k == NamedCount(Top.func.argnames)
         frame == envs[Top.env].entries
     IN /\ FrameHas(frame, "...")
        /\ FrameGet(frame, "...") =
             List([i \in 1..(Len(Top.argv) - k) |-> Top.argv[k + i].v])

(***************************************************************************)
(* C10: a deferred call carries exactly one evaluated value per operand,   *)
(* in operand order, so that invoking it later binds as the immediate call *)
(* would.                                                                  *)
(***************************************************************************)
C10_DeferralTransparent ==
  [][(/\ Returning("args")
      /\ Len(Top.results) + 1 = Len(Top.operands)
      /\ ~ Top.ft /\ Top.inf)
     => (/\ ctl'.m = "ret"
         /\ IsOk(ctl'.res)
         /\ ctl'.res.v.t = "tailcall"
         /\ Len(ctl'.res.v.args) = Len(Top.operands)
         /\ \A i \in 1..Len(Top.results) :
              Top.results[i] = Ok(ctl'.res.v.args[i])
         /\ ctl.res = Ok(ctl'.res.v.args[Len(Top.operands)]))]_vars

(***************************************************************************)
(* C2: while a tail-recursive loop runs, at most one invocation of the     *)
(* closure is active and the control stack stays below a constant, however *)
(* many iterations it makes; every recursive call is made by the           *)
(* trampoline of the first call (one bounce per iteration), and the loop   *)
(* ends with the result of its last invocation.                            *)
(***************************************************************************)
LoopResult(variant) ==
  IF variant = "direct" THEN Err("UndefinedSymbol") ELSE Ok(Sym("done"))
C2_TailCallsBounded ==
  \A i \in 0..MaxIter, v \in LoopVariants :
    prog = LoopProg(i, v) =>
      /\ CallDepth <= 1
      /\ Cardinality({d \in 1..Len(stack) : stack[d].k = "trampoline"}) <= 2
      /\ Len(stack) <= 9
      /\ bounces <= i
      /\ Done => (bounces = i /\ ctl.res = LoopResult(v))
C2_Witness ==
  /\ Done
  /\ prog = LoopProg(MaxIter, "let")
  /\ bounces = MaxIter
  /\ ctl.res = Ok(Sym("done"))

(***************************************************************************)
(* C3: eval and eval_block never return a TailCall, and no TailCall is     *)
(* ever held by a binding of an environment frame or by the arguments of a *)
(* closure invocation.                                                     *)
(***************************************************************************)
C3_TailCallNeverEscapes ==
  /\ Done /\ IsOk(ctl.res) => ~ ContainsTailCall(ctl.res.v)
  /\ \A e \in 1..Len(envs) : \A i \in 1..Len(envs[e].entries) :
       ~ ContainsTailCall(envs[e].entries[i].val)
  /\ \A d \in 1..Len(stack) :
       stack[d].k = "call_function" =>
         \A i \in 1..Len(stack[d].argv) :
           IsOk(stack[d].argv[i]) => ~ ContainsTailCall(stack[d].argv[i].v)
C3_Witness ==
  /\ Done
  /\ IsOk(ctl.res)
  /\ bounces > 0
  /\ entry = "eval"

(***************************************************************************)
(* C7: let makes one new frame, child of the current one; each declaration *)
(* is evaluated in that frame after the earlier names were bound in it, so *)
(* (let ((x1 1) (x2 (add x1 1)) ...) xn) is n; the enclosing frame keeps   *)
(* its own binding of x1 and gets none of the other names.                 *)
(***************************************************************************)
C7_LetSequential ==
  /\ \A d \in 1..Len(stack) :
       stack[d].k = "let" =>
         /\ envs[stack[d].env].parent = stack[d].scope
         /\ \A j \in 1..(stack[d].i - 1) :
              FrameHas(envs[stack[d].env].entries, stack[d].decls[j].xs[1].s)
         /\ (d = Len(stack) /\ ctl.m = "eval") => ctl.env = stack[d].env
  /\ \A n \in 0..MaxDecls :
       prog = LetProg(n) =>
         /\ Len(envs) <= 2
         /\ FrameHas(envs[1].entries, "x1")
              => FrameGet(envs[1].entries, "x1") = Num(100)
         /\ \A i \in 2..n : ~ FrameHas(envs[1].entries, Nm("x", i))
         /\ Done => /\ ctl.res = Ok(Num(100))
                    /\ Env_get(envs, 1, "r") = Ok(Num(n))
                    /\ Len(envs) = 2
                    /\ \A i \in 1..n :
                         FrameGet(envs[2].entries, Nm("x", i)) = Num(i)
C7_Witness ==
  /\ Done
  /\ prog = LetProg(MaxDecls)
  /\ Env_get(envs, 1, "r") = Ok(Num(MaxDecls))

(***************************************************************************)
(* C8: cond evaluates the conditions in order up to the first truthy one,  *)
(* then that clause's then-branch and nothing else of the clauses; the     *)
(* result is that branch's value, or Nil when no condition is truthy.      *)
(***************************************************************************)
CondExpected(tv) ==
  LET j == FirstIndex(tv, TRUE)
  IN IF j = 0 THEN [i \in 1..Len(tv) |-> CondCondition(tv, i)]
     ELSE [i \in 1..j |-> CondCondition(tv, i)] \o <<CondThen(j)>>
CondParts(tv) ==
  {CondCondition(tv, i) : i \in 1..Len(tv)} \cup {CondThen(i) : i \in 1..Len(tv)}
C8_CondFirstTruthy ==
  \A tv \in BoolSeqs(MaxClauses) :
    prog = CondProg(tv) =>
      /\ IsPrefix(Seen(CondParts(tv)), CondExpected(tv))
      /\ Done => /\ Seen(CondParts(tv)) = CondExpected(tv)
                 /\ ctl.res = IF FirstIndex(tv, TRUE) = 0 THEN Ok(NIL)
                              ELSE Ok(Num(FirstIndex(tv, TRUE)))
                 /\ \A i \in 1..Len(tv) :
                      FrameHas(envs[1].entries, Nm("t", i))
                        <=> i = FirstIndex(tv, TRUE)
C8_Witness ==
  /\ Done
  /\ prog = CondProg(<<FALSE, FALSE, TRUE, TRUE>>)
  /\ ctl.res = Ok(Num(3))

(***************************************************************************)
(* C9: a block evaluates its expressions in order and returns the result   *)
(* of the last; the first error is returned and nothing after it is        *)
(* evaluated; an empty block is an error.                                  *)
(***************************************************************************)
BlockExpected(fs) ==
  LET j == FirstIndex(fs, FALSE)
  IN SubSeq(BlockItems(fs), 1, IF j = 0 THEN Len(fs) ELSE j)
BlockParts(fs) == {BlockItem(fs, i) : i \in 1..Len(fs)}
BlockResult(fs) ==
  IF fs = <<>> THEN Err("EmptyBody")
  ELSE IF FirstIndex(fs, FALSE) # 0 THEN Err("UndefinedSymbol")
  ELSE Ok(Num(Len(fs)))
C9_BlockInOrder ==
  \A fs \in BoolSeqs(MaxBlock), w \in BlockWraps :
    (prog = BlockProg(fs, w) /\ entry # "none") =>
      /\ IsPrefix(Seen(BlockParts(fs)), BlockExpected(fs))
      /\ Done => /\ Seen(BlockParts(fs)) = BlockExpected(fs)
                 /\ ctl.res = BlockResult(fs)
                 /\ \A i \in 1..Len(fs) :
                      FrameHas(envs[IF w \in {"let", "body"} THEN 2 ELSE 1].entries,
                               Nm("b", i))
                        <=> (fs[i] /\ i <= Len(BlockExpected(fs)))
C9_Witness ==
  /\ Done
  /\ prog = BlockProg(<<TRUE, FALSE, TRUE>>, "body")
  /\ ctl.res = Err("UndefinedSymbol")

====
